---- MODULE Spec2Model ----
(***************************************************************************)
(* Detection-driven servo coordinator of 4_useModel/main.py, driven by the *)
(* frame loop of modules/detector.py (ObjectDetector.run).                 *)
(*                                                                         *)
(* Time is counted in tenths of a second: time.time() is the variable now, *)
(* the 1.0 s idle timeout of process_results is IdleTimeout = 10.          *)
(***************************************************************************)
EXTENDS Integers, Sequences, FiniteSets, TLC

(* ---- bounds of the model ---- *)
MaxTime == 11   \* the clock stops advancing at MaxTime tenths of a second
MaxStep == 3    \* largest advance of the clock between two callbacks
MaxDets == 2    \* longest detection list of a frame
MaxRun  == 2    \* the run observers saturate at MaxRun

(* ---- program constants ---- *)
IdleTimeout  == 10    \* if time_passed > 1.0
BatteryAngle == 45    \* servo.move(45)
MotorAngle   == 135   \* servo.move(135)
HomeAngle    == 90    \* ServoController(home_angle=90)

None == "None"                          \* last_object = None
NoTime == << >>                         \* last_seen_time = None
At(t) == << t >>                        \* last_seen_time = t
TargetClasses == {"battery", "motor"}   \* the classes process_results acts on
ClassNames == TargetClasses \cup {"person"}   \* model.names
Confs == {70, 90}                       \* conf of a box, in percent (>= conf_threshold)

\* One entry of ObjectDetector.latest_detections (class_name and conf; the
\* box and class_id are never read by process_results).
Detection == [class_name : ClassNames, conf : Confs]

\* The detection lists a frame can produce.
DetectionLists == UNION {[1..k -> Detection] : k \in 0..MaxDets}

\* servo.move(angle) and servo.home(), as calls received by the servo.
ServoMove(angle) == [op |-> "move", angle |-> angle]
ServoHome == [op |-> "home", angle |-> HomeAngle]

Min(a, b) == IF a < b THEN a ELSE b

VARIABLES
  pc,                 \* position of ObjectDetector.run / main: "read", "callback",
                      \* "det_cleanup", "servo_cleanup" or "done"
  now,                \* time.time()
  latest_detections,  \* ObjectDetector.latest_detections
  last_seen_time,     \* main.last_seen_time
  last_object,        \* main.last_object
  cmds,               \* observer: servo calls made by the latest callback
  prev_object,        \* observer: last_object when the latest callback began
  prev_seen,          \* observer: last_seen_time when the latest callback began
  run,                \* observer: the current run of ticks with one matched class
  target_seen,        \* observer: some detection list contained a target class
  ref,                \* observer: how far the ticks so far follow the reference trace
  frame_dets,         \* observer: what inference returned for the latest frame
  cb,                 \* observer: callbacks made for the latest frame
  exit_reason,        \* observer: why the detection loop ended ("running" before)
  log,                \* observer: the cleanup calls made, in order
  snap,               \* observer: the coordinator state when the loop ended
  sv,                 \* the ServoController: its configuration, current_angle
                      \* and the angle written to the hardware servo (hw)
  sv_last,            \* observer: the latest call of the servo specification
  rel,                \* observer: the current sequence of move_left / move_right
  args,               \* 2_collectImage: the parsed arguments (preview, save_every)
  cap_pc,             \* 2_collectImage main(): "test", "read", "drain", "post",
                      \* "finally" or "done"
  rd_pc,              \* stdin_reader: "test", "readline", "put", "finally" or "exit"
  stdin,              \* what the terminal still delivers: [lines, eof]
  line,               \* stdin_reader's local variable line
  stdin_queue,        \* the SimpleQueue between the two threads
  stop_event,         \* the threading.Event
  use_gui,            \* main(): use_gui
  key,                \* main(): key of the current iteration
  clock,              \* time.time() of the capture tool, in seconds
  last_save_time,     \* main(): last_save_time
  released,           \* cap.release() was called
  entered,            \* observer: the lines the terminal delivered so far
  consumed,           \* observer: the commands main() took from the queue
  saved,              \* observer: save_frame calls with prefix "terminal"
  it,                 \* observer: the auto-save decision of the latest iteration
  why,                \* observer: what ended the capture loop ("running" before)
  cam,                \* app.py Camera: [open, reads]: cap is open, frames read so far
  cam_lock,           \* Camera.lock: the thread holding it, 0 when free
  last_frame,         \* Camera.last_frame: a frame number, 0 for None
  th,                 \* the request threads of the web service
  web                 \* observer: [stored, written] frames of the web service

coordVars == <<pc, now, latest_detections, last_seen_time, last_object,
               cmds, prev_object, prev_seen, run, target_seen>>
lifeVars == <<ref, frame_dets, cb, exit_reason, log, snap>>

servoVars == <<sv, sv_last, rel>>

capVars == <<args, cap_pc, rd_pc, stdin, line, stdin_queue, stop_event, use_gui,
             key, clock, last_save_time, released, entered, consumed, saved,
             it, why>>

webVars == <<cam, cam_lock, last_frame, th, web>>

vars == <<coordVars, lifeVars, servoVars, capVars, webVars>>

(* ---- process_results ---- *)

\* Variant: the battery move is made only when nothing is tracked.
BatteryBranch_OnlyFromIdle(st, current_time) ==
  [last_object |-> "battery",
   last_seen_time |-> At(current_time),
   cmds |-> IF st.last_object = None
            THEN Append(st.cmds, ServoMove(BatteryAngle))
            ELSE st.cmds]

\* Variant: the battery move is made on every battery tick (no debounce).
BatteryBranch_AlwaysMove(st, current_time) ==
  [last_object |-> "battery",
   last_seen_time |-> At(current_time),
   cmds |-> Append(st.cmds, ServoMove(BatteryAngle))]

\* if object_name == 'battery': ... break
BatteryBranch(st, current_time) ==
  [last_object |-> "battery",
   last_seen_time |-> At(current_time),
   cmds |-> IF st.last_object # "battery"
            THEN Append(st.cmds, ServoMove(BatteryAngle))
            ELSE st.cmds]

\* Variant: last_seen_time is assigned inside the "new motor" test only.
MotorBranch_NoRefresh(st, current_time) ==
  IF st.last_object # "motor"
  THEN [last_object |-> "motor",
        last_seen_time |-> At(current_time),
        cmds |-> Append(st.cmds, ServoMove(MotorAngle))]
  ELSE st

\* elif object_name == 'motor': ... break
MotorBranch(st, current_time) ==
  [last_object |-> "motor",
   last_seen_time |-> At(current_time),
   cmds |-> IF st.last_object # "motor"
            THEN Append(st.cmds, ServoMove(MotorAngle))
            ELSE st.cmds]

\* Variant: the loop acts on the target detection of highest conf.
ForLoop_HighestConf(results, i, st, current_time) ==
  LET hits == {k \in i..Len(results) : results[k].class_name \in {"battery", "motor"}} IN
  IF hits = {} THEN st
  ELSE LET best == CHOOSE k \in hits :
                     \A j \in hits : \/ results[j].conf < results[k].conf
                                     \/ (results[j].conf = results[k].conf /\ k <= j)
       IN IF results[best].class_name = "battery"
          THEN BatteryBranch(st, current_time)
          ELSE MotorBranch(st, current_time)

\* Variant: the branches do not break out of the loop.
RECURSIVE ForLoop_NoBreak(_, _, _, _)
ForLoop_NoBreak(results, i, st, current_time) ==
  IF i > Len(results) THEN st
  ELSE LET object_name == results[i].class_name IN
       IF object_name = "battery"
       THEN ForLoop_NoBreak(results, i + 1, BatteryBranch(st, current_time), current_time)
       ELSE IF object_name = "motor"
       THEN ForLoop_NoBreak(results, i + 1, MotorBranch(st, current_time), current_time)
       ELSE ForLoop_NoBreak(results, i + 1, st, current_time)

\* for obj in results: from index i on
RECURSIVE ForLoop(_, _, _, _)
ForLoop(results, i, st, current_time) ==
  IF i > Len(results) THEN st
  ELSE LET object_name == results[i].class_name IN
       IF object_name = "battery" THEN BatteryBranch(st, current_time)
       ELSE IF object_name = "motor" THEN MotorBranch(st, current_time)
       ELSE ForLoop(results, i + 1, st, current_time)

\* Variant: the comparison is >=.
TimedOut_AtBoundary(current_time, seen) == current_time - seen >= IdleTimeout

\* if time_passed > 1.0
TimedOut(current_time, seen) == current_time - seen > IdleTimeout

\* Variant: home is issued without the "last_seen_time is not None" test.
ElseBranch_HomeWhenIdle(st, current_time) ==
  IF st.last_seen_time = NoTime \/ TimedOut(current_time, st.last_seen_time[1])
  THEN [last_object |-> None,
        last_seen_time |-> NoTime,
        cmds |-> Append(st.cmds, ServoHome)]
  ELSE st

\* Variant: the timeout clears last_seen_time and leaves last_object.
ElseBranch_KeepObject(st, current_time) ==
  IF st.last_seen_time # NoTime /\ TimedOut(current_time, st.last_seen_time[1])
  THEN [last_object |-> st.last_object,
        last_seen_time |-> NoTime,
        cmds |-> Append(st.cmds, ServoHome)]
  ELSE st

\* Variant: an empty tick within the grace period refreshes last_seen_time.
ElseBranch_RefreshOnEmpty(st, current_time) ==
  IF st.last_seen_time # NoTime /\ TimedOut(current_time, st.last_seen_time[1])
  THEN [last_object |-> None,
        last_seen_time |-> NoTime,
        cmds |-> Append(st.cmds, ServoHome)]
  ELSE IF st.last_seen_time # NoTime
  THEN [st EXCEPT !.last_seen_time = At(current_time)]
  ELSE st

\* Variant: on timeout the state is cleared without the home command.
ElseBranch_NoHome(st, current_time) ==
  IF st.last_seen_time # NoTime /\ TimedOut(current_time, st.last_seen_time[1])
  THEN [st EXCEPT !.last_object = None, !.last_seen_time = NoTime]
  ELSE st

\* else: (results is empty)
ElseBranch(st, current_time) ==
  IF st.last_seen_time # NoTime /\ TimedOut(current_time, st.last_seen_time[1])
  THEN [last_object |-> None,
        last_seen_time |-> NoTime,
        cmds |-> Append(st.cmds, ServoHome)]
  ELSE st

\* process_results(detector, servo) with results = detector.result()
ProcessResults(st, results, current_time) ==
  IF results # << >>
  THEN ForLoop(results, 1, st, current_time)
  ELSE ElseBranch(st, current_time)

(* ---- observers ---- *)

\* The class of the first detection of a target class, None if there is none.
MatchedClass(results) ==
  LET hits == {i \in 1..Len(results) : results[i].class_name \in TargetClasses} IN
  IF hits = {} THEN None
  ELSE results[CHOOSE i \in hits : \A j \in hits : i <= j].class_name

\* The run after a tick with matched class m that made k servo calls, entered
\* with last_object = entry.
RunAfter(r, m, k, entry) ==
  IF r.n > 0 /\ r.cls = m
  THEN [r EXCEPT !.n = Min(r.n + 1, MaxRun), !.cmds = Min(r.cmds + k, MaxRun)]
  ELSE [cls |-> m, entry |-> entry, n |-> 1, cmds |-> k, first |-> k]

(* ---- ServoController ---- *)

MaxRel == 3   \* the rel observer restarts after MaxRel relative moves

Max(a, b) == IF a > b THEN a ELSE b

\* ServoController(gpio_pin=18, home_angle=90) of main.py, defaults otherwise.
DefaultConfig ==
  [min_angle |-> 0, max_angle |-> 180, home_angle |-> 90, angle_offset |-> 0]

\* The configurations of the servo specification (whole degrees).
Configs ==
  [min_angle : {0, 30}, max_angle : {150, 180},
   home_angle : {-30, 60, 90, 210}, angle_offset : {-20, 0, 20}]

Angles == {-45, 45, 90, 135, 225}    \* arguments of move
Degrees == {-45, 45, 90, 200}        \* arguments of move_left / move_right
SweepAngles == {-45, 0, 180}         \* start and end arguments of sweep
SweepSteps == {1, 2}                 \* the steps argument of sweep

\* _clamp_angle
ClampAngle(s, angle) == Max(s.min_angle, Min(s.max_angle, angle))

\* Variant: the calibrated angle is written without the second clamp.
Move_NoSecondClamp(s, angle) ==
  LET a == ClampAngle(s, angle) IN
  [s EXCEPT !.hw = a + s.angle_offset, !.current_angle = a]

\* Variant: the calibrated angle is stored as current_angle.
Move_StoresCalibrated(s, angle) ==
  LET a == ClampAngle(s, angle)
      calibrated_angle == ClampAngle(s, a + s.angle_offset)
  IN [s EXCEPT !.hw = calibrated_angle, !.current_angle = calibrated_angle]

\* move
Move(s, angle) ==
  LET a == ClampAngle(s, angle)
      calibrated_angle == ClampAngle(s, a + s.angle_offset)
  IN [s EXCEPT !.hw = calibrated_angle, !.current_angle = a]

\* Variant: move_left adds the degrees.
MoveLeft_Adds(s, degrees) == Move(s, s.current_angle + degrees)

\* move_left
MoveLeft(s, degrees) == Move(s, s.current_angle - degrees)

\* move_right
MoveRight(s, degrees) == Move(s, s.current_angle + degrees)

\* Variant: home moves to the center, 90, whatever home_angle is.
Home_ToCenter(s) == Move(s, 90)

\* home
Home(s) == Move(s, s.home_angle)

\* sweep: for i in range(steps + 1), from index i on; start and end are
\* clamped already; the angle of a step is rounded down to whole degrees.
RECURSIVE SweepLoop(_, _, _, _, _)
SweepLoop(s, start_angle, end_angle, steps, i) ==
  IF i > steps THEN s
  ELSE SweepLoop(Move(s, start_angle + ((end_angle - start_angle) * i) \div steps),
                 start_angle, end_angle, steps, i + 1)

\* sweep
Sweep(s, start_angle, end_angle, steps) ==
  SweepLoop(s, ClampAngle(s, start_angle), ClampAngle(s, end_angle), steps, 0)

\* get_angle
GetAngle(s) == s.current_angle

\* __init__: current_angle = home_angle, the AngularServo is created (at its
\* initial angle 0), then home().
Construct(c) ==
  Home([min_angle |-> c.min_angle, max_angle |-> c.max_angle,
        home_angle |-> c.home_angle, angle_offset |-> c.angle_offset,
        current_angle |-> c.home_angle, hw |-> 0])

\* The ServoController after the calls process_results made on it, in order.
RECURSIVE ServoAfter(_, _)
ServoAfter(s, calls) ==
  IF calls = << >> THEN s
  ELSE ServoAfter(IF Head(calls).op = "home" THEN Home(s)
                  ELSE Move(s, Head(calls).angle),
                  Tail(calls))

NoRel == [start |-> 0, sum |-> 0, n |-> 0, clamped |-> FALSE]

\* rel after a relative move by delta (negative to the left).
RelAfter(r, s, delta) ==
  LET target == s.current_angle + delta
      out == target < s.min_angle \/ target > s.max_angle
  IN IF r.n = 0 \/ r.n >= MaxRel
     THEN [start |-> s.current_angle, sum |-> delta, n |-> 1, clamped |-> out]
     ELSE [start |-> r.start, sum |-> r.sum + delta, n |-> r.n + 1,
           clamped |-> (r.clamped \/ out)]

Called(op, arg, s) == [op |-> op, arg |-> arg, before |-> s.current_angle]

(* ---- 2_collectImage/main.py: arguments, terminal input, auto-save ---- *)

MaxLines   == 2   \* most lines the terminal delivers in one run
MaxCapTime == 6   \* the capture clock stops advancing at MaxCapTime seconds
MaxCapStep == 3   \* largest advance of the clock between two readings

NoKey  == 255     \* key = 0xFF: no key pressed in the preview window
KeyS   == 115     \* ord("s")
KeyQ   == 113     \* ord("q")
EscKey == 27

\* The values of --save-every and --preview tried.
SaveEvery == {0, 2}
Args == [preview : BOOLEAN, save_every : SaveEvery]
DefaultArgs == [preview |-> FALSE, save_every |-> 0]

\* Lines as sys.stdin.readline() returns them, with their newline.
Lines == {"s\n", "Q\n", "x\n"}

\* All sequences over S of length at most n.
SeqsUpTo(S, n) == UNION {[1..k -> S] : k \in 0..n}

\* What the terminal delivers in one run: some lines, then either end of
\* file or nothing more (readline blocks).
StdinStreams == [lines : SeqsUpTo(Lines, MaxLines), eof : BOOLEAN]

\* line.strip() for the lines above.
Strip(l) ==
  CASE l = "s\n" -> "s"
    [] l = "Q\n" -> "Q"
    [] l = "x\n" -> "x"
    [] OTHER -> l

\* cmd.lower()
Lower(cmd) ==
  CASE cmd = "S" -> "s"
    [] cmd = "Q" -> "q"
    [] cmd = "X" -> "x"
    [] OTHER -> cmd

QuitWords == {"q", "quit", "exit"}

\* Keys cv2.waitKey(1) & 0xFF returns in the preview window.
Keys == {NoKey, KeyS, KeyQ, EscKey}

\* Variant: the interval has to be exceeded, not reached.
AutoSaveDue_Strict(a, t, last) ==
  a.save_every # 0 /\ a.save_every > 0 /\ t - last > a.save_every

\* if args.save_every and args.save_every > 0: ... if now - last_save_time >= ...
AutoSaveDue(a, t, last) ==
  a.save_every # 0 /\ a.save_every > 0 /\ t - last >= a.save_every

\* Variant: a manual save restarts the interval.
LastSaveAfter_ManualResets(due, manual, t, last) == IF due \/ manual THEN t ELSE last

\* last_save_time after the auto-save block.
LastSaveAfter(due, manual, t, last) == IF due THEN t ELSE last

\* The auto-save observer before the first iteration.
NoIteration ==
  [checked |-> FALSE, t |-> 0, last |-> 0, auto |-> FALSE, manual |-> FALSE,
   prev_auto |-> NoTime, gap |-> NoTime]

\* main() up to the loop, run with arguments a, GUI available or not, and
\* terminal input in.
CaptureStart(a, gui, in) ==
  /\ args = a
  /\ cap_pc = "test"
  /\ rd_pc = "test"
  /\ stdin = in
  /\ line = ""
  /\ stdin_queue = << >>
  /\ stop_event = FALSE
  /\ use_gui = (a.preview /\ gui)
  /\ key = NoKey
  /\ clock = 0
  /\ last_save_time = 0
  /\ released = FALSE
  /\ entered = << >>
  /\ consumed = << >>
  /\ saved = 0
  /\ it = NoIteration
  /\ why = "running"

(* ---- 2_collectImage/app.py: the Camera of the web service ---- *)

MaxThreads == 2   \* request threads of the web service running at once
MaxFrames  == 2   \* frames the camera delivers in one run

NoFrame == 0      \* last_frame = None; frames are numbered from 1
NoThread == 0     \* the lock is free

\* A request thread that is not inside a request.
IdleThread ==
  [pc |-> "idle", frame |-> NoFrame, before |-> NoFrame, saw |-> NoFrame,
   ret |-> "none"]

\* Camera() with a camera found or not, and n request threads.
WebStart(open, n) ==
  /\ cam = [open |-> open, reads |-> 0]
  /\ cam_lock = NoThread
  /\ last_frame = NoFrame
  /\ th = [t \in 1..n |-> IdleThread]
  /\ web = [stored |-> {}, written |-> {}]

(* ---- the reference trace of the coordinator's contract ---- *)

\* The six ticks: time in tenths of a second and the classes detected.
RefTrace ==
  << [t |-> 0,  classes |-> << "battery" >>],
     [t |-> 3,  classes |-> << "battery" >>],
     [t |-> 5,  classes |-> << >>],
     [t |-> 15, classes |-> << >>],
     [t |-> 16, classes |-> << "motor" >>],
     [t |-> 17, classes |-> << "battery", "motor" >>] >>

RefTimes == {RefTrace[k].t : k \in 1..Len(RefTrace)}

ClassesOf(dets) == [i \in 1..Len(dets) |-> dets[i].class_name]

\* The detection lists of the loop specification: those of the reference
\* trace (conf 90) and one list with an unknown class only.
LoopLists ==
  {dets \in DetectionLists :
     /\ \A i \in 1..Len(dets) : dets[i].conf = 90
     /\ \/ \E k \in 1..Len(RefTrace) : ClassesOf(dets) = RefTrace[k].classes
        \/ ClassesOf(dets) = << "person" >>}

RefOff == [on |-> FALSE, k |-> 0]

\* ref after a frame with detections dets.
RefAfterRead(r, dets) ==
  IF r.on /\ r.k < Len(RefTrace) /\ ClassesOf(dets) = RefTrace[r.k + 1].classes
  THEN r ELSE RefOff

\* ref after a callback at time t.
RefAfterCallback(r, t) ==
  IF r.on /\ r.k < Len(RefTrace) /\ t = RefTrace[r.k + 1].t
  THEN [r EXCEPT !.k = r.k + 1] ELSE RefOff

(* ---- the detector loop ---- *)

\* The coordinator state the observers keep when the loop ends.
Snapshot ==
  [last_object |-> last_object, last_seen_time |-> last_seen_time,
   dets |-> latest_detections, cb |-> cb]

Init ==
  /\ pc = "read"
  /\ now = 0
  /\ latest_detections = << >>
  /\ last_seen_time = NoTime
  /\ last_object = None
  /\ cmds = << >>
  /\ prev_object = None
  /\ prev_seen = NoTime
  /\ run = [cls |-> None, entry |-> None, n |-> 0, cmds |-> 0, first |-> 0]
  /\ target_seen = FALSE
  /\ ref = [on |-> TRUE, k |-> 0]
  /\ frame_dets = << >>
  /\ cb = 0
  /\ exit_reason = "running"
  /\ log = << >>
  /\ snap = [last_object |-> None, last_seen_time |-> NoTime,
             dets |-> << >>, cb |-> 0]
  /\ sv = Construct(DefaultConfig)
  /\ sv_last = [op |-> "init", arg |-> 0, before |-> DefaultConfig.home_angle]
  /\ rel = NoRel
  /\ CaptureStart(DefaultArgs, FALSE, [lines |-> << >>, eof |-> FALSE])
  /\ WebStart(FALSE, 0)

\* The variables no step of the detector loop changes.
otherVars == <<servoVars, capVars, webVars>>

\* Variant: latest_detections is not reset before the boxes are appended.
NewDetections_NoReset(old, dets) == old \o dets

\* self.latest_detections = []; then one append per box
NewDetections(old, dets) == dets

\* ObjectDetector.run: a frame is read, inference runs, latest_detections is
\* replaced by the frame's detections (one of lists).
ReadAndDetectFrom(lists) ==
  /\ pc = "read"
  /\ \E dets \in lists :
       /\ latest_detections' = NewDetections(latest_detections, dets)
       /\ target_seen' = (target_seen \/ MatchedClass(dets) # None)
       /\ ref' = RefAfterRead(ref, dets)
       /\ frame_dets' = << dets >>
  /\ cb' = 0
  /\ pc' = "callback"
  /\ UNCHANGED <<now, last_seen_time, last_object, cmds, prev_object, prev_seen, run>>
  /\ UNCHANGED <<exit_reason, log, snap>>
  /\ UNCHANGED otherVars

\* Variant: the callback is skipped for a frame without detections.
CallbackWanted_OnlyWithDetections(dets) == dets # << >>

\* if callback:
CallbackWanted(dets) == TRUE

\* ObjectDetector.run: callback(self), i.e. process_results(detector, servo),
\* with time.time() = t; then the loop goes back to cap.read().
CallbackAt(t) ==
  /\ pc = "callback"
  /\ now' = t
  /\ IF CallbackWanted(latest_detections)
     THEN LET st  == [last_object |-> last_object,
                      last_seen_time |-> last_seen_time,
                      cmds |-> << >>]
              out == ProcessResults(st, latest_detections, t)
          IN /\ last_object' = out.last_object
             /\ last_seen_time' = out.last_seen_time
             /\ cmds' = out.cmds
             /\ run' = RunAfter(run, MatchedClass(latest_detections),
                                Len(out.cmds), last_object)
             /\ prev_object' = last_object
             /\ prev_seen' = last_seen_time
             /\ cb' = cb + 1
             /\ sv' = ServoAfter(sv, out.cmds)
     ELSE UNCHANGED <<last_object, last_seen_time, cmds, run, prev_object,
                      prev_seen, cb, sv>>
  /\ ref' = RefAfterCallback(ref, t)
  /\ pc' = "read"
  /\ UNCHANGED <<latest_detections, target_seen>>
  /\ UNCHANGED <<frame_dets, exit_reason, log, snap>>
  /\ UNCHANGED <<sv_last, rel, capVars, webVars>>

ReadAndDetect == ReadAndDetectFrom(DetectionLists)

Callback ==
  \E dt \in 0..MaxStep :
    /\ now + dt <= MaxTime
    /\ CallbackAt(now + dt)

Next == ReadAndDetect \/ Callback

Spec == Init /\ [][Next]_vars

(* ---- the detector loop with its failures and its shutdown ---- *)

\* Variant: the failed call is booked as if it had been made.
ServoRaises_Optimistic(st, out) == out

\* process_results when the servo call raises: servo.move / servo.home comes
\* before the assignments of its branch, which the exception skips.
ServoRaises(st, out) ==
  [last_object |-> st.last_object,
   last_seen_time |-> st.last_seen_time,
   cmds |-> out.cmds]

\* Variant: an exception leaves the loop without the finally blocks.
AfterRaise_NoFinally == "done"

\* ObjectDetector.run: an exception from the callback reaches "finally".
AfterRaise == "det_cleanup"

\* Variant: a failed read falls through to the callback.
AfterReadFailure_FallThrough == "callback"

\* if not ret: ... break, then "finally"
AfterReadFailure == "det_cleanup"

LoopReadAndDetect == ReadAndDetectFrom(LoopLists)

LoopCallback == \E t \in RefTimes : t >= now /\ CallbackAt(t)

\* ObjectDetector.run: callback(self) in which the servo call raises.
LoopCallbackRaises ==
  /\ pc = "callback"
  /\ \E t \in RefTimes :
       /\ t >= now
       /\ now' = t
       /\ LET st  == [last_object |-> last_object,
                      last_seen_time |-> last_seen_time,
                      cmds |-> << >>]
              out == ProcessResults(st, latest_detections, t)
              end == ServoRaises(st, out)
          IN /\ out.cmds # << >>
             /\ last_object' = end.last_object
             /\ last_seen_time' = end.last_seen_time
             /\ cmds' = end.cmds
             /\ snap' = [last_object |-> end.last_object,
                         last_seen_time |-> end.last_seen_time,
                         dets |-> latest_detections, cb |-> cb + 1]
  /\ prev_object' = last_object
  /\ prev_seen' = last_seen_time
  /\ cb' = cb + 1
  /\ exit_reason' = "raised"
  /\ pc' = AfterRaise
  /\ UNCHANGED <<latest_detections, target_seen, run, ref, frame_dets, log>>
  /\ UNCHANGED otherVars

\* ObjectDetector.run: cap.read() returns ret = False.
ReadFails ==
  /\ pc = "read"
  /\ exit_reason' = "read_fail"
  /\ snap' = Snapshot
  /\ pc' = AfterReadFailure
  /\ UNCHANGED <<now, latest_detections, last_seen_time, last_object, cmds,
                 prev_object, prev_seen, run, target_seen>>
  /\ UNCHANGED <<ref, frame_dets, cb, log>>
  /\ UNCHANGED otherVars

\* ObjectDetector.run: cv2.waitKey(1) returns 'q' at the end of an iteration.
QuitKey ==
  /\ pc = "read"
  /\ frame_dets # << >>
  /\ exit_reason' = "quit"
  /\ snap' = Snapshot
  /\ pc' = "det_cleanup"
  /\ UNCHANGED <<now, latest_detections, last_seen_time, last_object, cmds,
                 prev_object, prev_seen, run, target_seen>>
  /\ UNCHANGED <<ref, frame_dets, cb, log>>
  /\ UNCHANGED otherVars

\* ObjectDetector.run: Ctrl+C while the loop runs (except KeyboardInterrupt).
Interrupt ==
  /\ pc \in {"read", "callback"}
  /\ exit_reason' = "interrupt"
  /\ snap' = Snapshot
  /\ pc' = "det_cleanup"
  /\ UNCHANGED <<now, latest_detections, last_seen_time, last_object, cmds,
                 prev_object, prev_seen, run, target_seen>>
  /\ UNCHANGED <<ref, frame_dets, cb, log>>
  /\ UNCHANGED otherVars

\* ObjectDetector.run: finally: self.cleanup() (cap.release()).
DetectorCleanup ==
  /\ pc = "det_cleanup"
  /\ log' = Append(log, "detector.cleanup")
  /\ pc' = "servo_cleanup"
  /\ UNCHANGED <<now, latest_detections, last_seen_time, last_object, cmds,
                 prev_object, prev_seen, run, target_seen>>
  /\ UNCHANGED <<ref, frame_dets, cb, exit_reason, snap>>
  /\ UNCHANGED otherVars

\* main: finally: servo.cleanup().
ServoCleanup ==
  /\ pc = "servo_cleanup"
  /\ log' = Append(log, "servo.cleanup")
  /\ pc' = "done"
  /\ UNCHANGED <<now, latest_detections, last_seen_time, last_object, cmds,
                 prev_object, prev_seen, run, target_seen>>
  /\ UNCHANGED <<ref, frame_dets, cb, exit_reason, snap>>
  /\ UNCHANGED otherVars

NextLoop ==
  \/ LoopReadAndDetect
  \/ LoopCallback
  \/ LoopCallbackRaises
  \/ ReadFails
  \/ QuitKey
  \/ Interrupt
  \/ DetectorCleanup
  \/ ServoCleanup

SpecLoop == Init /\ [][NextLoop]_vars

\* The statements of the finally blocks run once control reaches them.
FairLoop ==
  /\ Init
  /\ [][NextLoop]_vars
  /\ WF_vars(DetectorCleanup)
  /\ WF_vars(ServoCleanup)

(* ---- properties of the coordinator ---- *)

\* A callback has completed and the observers describe it.
AfterTick == pc = "read" /\ run.n > 0

\* The matched class of the latest tick.
Matched == MatchedClass(latest_detections)

\* class_to_angle of the coordinator's contract.
ClaimAngle == [battery |-> 45, motor |-> 135]

\* C1: on a tick with no detection of a target class, while tracking and with
\* now - last_seen_at > idle_timeout, the tick issues exactly the home command
\* (angle 90) and clears last_object and last_seen_time.
C1_HomeOnTimeout ==
  (/\ AfterTick
   /\ Matched = None
   /\ prev_object # None
   /\ prev_seen # NoTime
   /\ now - prev_seen[1] > 10)
  => /\ cmds = << [op |-> "home", angle |-> 90] >>
     /\ last_object = None
     /\ last_seen_time = NoTime

\* C2: when the tick's matched class differs from the tracked class (Idle
\* included, a direct switch between classes included), the tick issues exactly
\* one move, to the class's angle, and then tracks the matched class since now.
C2_MoveOnChange ==
  (AfterTick /\ Matched # None /\ Matched # prev_object)
  => /\ cmds = << [op |-> "move", angle |-> ClaimAngle[Matched]] >>
     /\ last_object = Matched
     /\ last_seen_time = At(now)

\* A tick switched directly from motor to battery.
C2_Witness ==
  /\ AfterTick
  /\ prev_object = "motor"
  /\ Matched = "battery"
  /\ cmds = << [op |-> "move", angle |-> 45] >>
  /\ last_object = "battery"
  /\ last_seen_time = At(now)

\* C3: when the tick's matched class equals the tracked class, no servo command
\* is issued, last_object is unchanged and last_seen_time becomes now.
C3_SameClassRefresh ==
  (AfterTick /\ Matched # None /\ Matched = prev_object)
  => /\ cmds = << >>
     /\ last_object = prev_object
     /\ last_seen_time = At(now)

\* A motor tick while tracking motor moved last_seen_time forward.
C3_Witness ==
  /\ AfterTick
  /\ Matched = "motor"
  /\ prev_object = "motor"
  /\ prev_seen # At(now)
  /\ last_seen_time = At(now)
  /\ cmds = << >>

\* C4: on a no-match tick while tracking with now - last_seen_at <= idle_timeout
\* (equality included) no command is issued and last_object and last_seen_time
\* are unchanged; home is issued only when the difference exceeds idle_timeout.
C4_GracePeriod ==
  AfterTick =>
    /\ (/\ Matched = None
        /\ prev_object # None
        /\ prev_seen # NoTime
        /\ now - prev_seen[1] <= 10)
       => /\ cmds = << >>
          /\ last_object = prev_object
          /\ last_seen_time = prev_seen
    /\ (\E k \in 1..Len(cmds) : cmds[k].op = "home")
       => (prev_seen # NoTime /\ now - prev_seen[1] > 10)

\* A no-match tick exactly idle_timeout after the last sighting left the state.
C4_Witness ==
  /\ AfterTick
  /\ Matched = None
  /\ prev_object # None
  /\ prev_seen # NoTime
  /\ now - prev_seen[1] = 10
  /\ cmds = << >>
  /\ last_object = prev_object
  /\ last_seen_time = prev_seen

\* C5: the class acted on is that of the first detection, in list order, whose
\* class_name is a target class: unknown classes before it are skipped, later
\* detections and all conf values have no influence.
C5_FirstMatch ==
  AfterTick =>
    \A i \in 1..Len(latest_detections) :
      (/\ latest_detections[i].class_name \in {"battery", "motor"}
       /\ \A j \in 1..(i - 1) :
            latest_detections[j].class_name \notin {"battery", "motor"})
      => /\ last_object = latest_detections[i].class_name
         /\ \A k \in 1..Len(cmds) :
              cmds[k] = [op |-> "move",
                         angle |-> ClaimAngle[latest_detections[i].class_name]]
         /\ (prev_object # latest_detections[i].class_name => cmds # << >>)

\* [battery (conf 70), motor (conf 90)] while tracking motor moved to 45.
C5_Witness ==
  /\ AfterTick
  /\ prev_object = "motor"
  /\ latest_detections = << [class_name |-> "battery", conf |-> 70],
                            [class_name |-> "motor", conf |-> 90] >>
  /\ cmds = << [op |-> "move", angle |-> 45] >>
  /\ last_object = "battery"

\* C6: while tracking, once the detection lists contain no target class and
\* time keeps growing, home is eventually issued and the coordinator is Idle;
\* as a bound a finite run decides: after a tick of a no-match run the
\* coordinator still tracks only if now - last_seen_at <= idle_timeout.
C6_IdleReturn ==
  (/\ AfterTick
   /\ run.cls = None
   /\ last_object # None
   /\ last_seen_time # NoTime)
  => now - last_seen_time[1] <= 10

\* C7: as long as no detection list has contained a target class, no servo
\* command is issued and the state stays Idle.
C7_PureIdle ==
  ~target_seen => /\ cmds = << >>
                  /\ last_object = None
                  /\ last_seen_time = NoTime

\* Several ticks without a target class, the latest with a non-empty list and
\* later than idle_timeout.
C7_Witness ==
  /\ AfterTick
  /\ ~target_seen
  /\ run.n >= 2
  /\ latest_detections # << >>
  /\ now > 10
  /\ cmds = << >>
  /\ last_object = None

\* C8: a run of consecutive ticks with the same matched class C, entered from
\* a state not tracking C, issues exactly one servo command in the whole run,
\* on its first tick, whatever the run's length and timing.
C8_OneCommandPerRun ==
  (run.n > 0 /\ run.cls # None /\ run.entry # run.cls)
  => (run.cmds = 1 /\ run.first = 1)

\* A battery run of at least MaxRun ticks, entered while not tracking battery.
C8_Witness ==
  /\ AfterTick
  /\ run.cls = "battery"
  /\ run.entry # "battery"
  /\ run.n = MaxRun
  /\ run.cmds = 1
  /\ run.first = 1

\* C9: one call of process_results issues at most one servo command.
C9_AtMostOneCommand == Len(cmds) <= 1

\* A tick whose list is full and holds both target classes issued one command.
C9_Witness ==
  /\ AfterTick
  /\ Len(latest_detections) = MaxDets
  /\ \E i, j \in 1..Len(latest_detections) :
       /\ latest_detections[i].class_name = "battery"
       /\ latest_detections[j].class_name = "motor"
  /\ Len(cmds) = 1

\* C10: last_object is empty if and only if last_seen_time is empty.
C10_Pairing == (last_object = None) <=> (last_seen_time = NoTime)

\* A tick cleared both after an earlier tick had set both.
C10_Witness ==
  /\ AfterTick
  /\ prev_object # None
  /\ prev_seen # NoTime
  /\ last_object = None
  /\ last_seen_time = NoTime

(* ---- the ServoController on its own ---- *)

InitServo ==
  /\ pc = "read"
  /\ now = 0
  /\ latest_detections = << >>
  /\ last_seen_time = NoTime
  /\ last_object = None
  /\ cmds = << >>
  /\ prev_object = None
  /\ prev_seen = NoTime
  /\ run = [cls |-> None, entry |-> None, n |-> 0, cmds |-> 0, first |-> 0]
  /\ target_seen = FALSE
  /\ ref = [on |-> TRUE, k |-> 0]
  /\ frame_dets = << >>
  /\ cb = 0
  /\ exit_reason = "running"
  /\ log = << >>
  /\ snap = [last_object |-> None, last_seen_time |-> NoTime,
             dets |-> << >>, cb |-> 0]
  /\ \E c \in Configs :
       /\ sv = Construct(c)
       /\ sv_last = [op |-> "init", arg |-> 0, before |-> c.home_angle]
  /\ rel = NoRel
  /\ CaptureStart(DefaultArgs, FALSE, [lines |-> << >>, eof |-> FALSE])
  /\ WebStart(FALSE, 0)

\* servo.move(angle)
DoMove ==
  /\ \E angle \in Angles :
       /\ sv' = Move(sv, angle)
       /\ sv_last' = Called("move", angle, sv)
  /\ rel' = NoRel
  /\ UNCHANGED <<coordVars, lifeVars, capVars, webVars>>

\* servo.move_left(degrees)
DoMoveLeft ==
  /\ \E degrees \in Degrees :
       /\ sv' = MoveLeft(sv, degrees)
       /\ sv_last' = Called("move_left", degrees, sv)
       /\ rel' = RelAfter(rel, sv, 0 - degrees)
  /\ UNCHANGED <<coordVars, lifeVars, capVars, webVars>>

\* servo.move_right(degrees)
DoMoveRight ==
  /\ \E degrees \in Degrees :
       /\ sv' = MoveRight(sv, degrees)
       /\ sv_last' = Called("move_right", degrees, sv)
       /\ rel' = RelAfter(rel, sv, degrees)
  /\ UNCHANGED <<coordVars, lifeVars, capVars, webVars>>

\* servo.sweep(start_angle, end_angle, steps)
DoSweep ==
  /\ \E start_angle \in SweepAngles, end_angle \in SweepAngles, steps \in SweepSteps :
       /\ sv' = Sweep(sv, start_angle, end_angle, steps)
       /\ sv_last' = Called("sweep", end_angle, sv)
  /\ rel' = NoRel
  /\ UNCHANGED <<coordVars, lifeVars, capVars, webVars>>

\* servo.home()
DoHome ==
  /\ sv' = Home(sv)
  /\ sv_last' = Called("home", 0, sv)
  /\ rel' = NoRel
  /\ UNCHANGED <<coordVars, lifeVars, capVars, webVars>>

NextServo == DoMove \/ DoMoveLeft \/ DoMoveRight \/ DoSweep \/ DoHome

SpecServo == InitServo /\ [][NextServo]_vars

(* ---- the capture loop of 2_collectImage/main.py and its stdin reader ---- *)

InitCapture ==
  /\ pc = "read"
  /\ now = 0
  /\ latest_detections = << >>
  /\ last_seen_time = NoTime
  /\ last_object = None
  /\ cmds = << >>
  /\ prev_object = None
  /\ prev_seen = NoTime
  /\ run = [cls |-> None, entry |-> None, n |-> 0, cmds |-> 0, first |-> 0]
  /\ target_seen = FALSE
  /\ ref = [on |-> TRUE, k |-> 0]
  /\ frame_dets = << >>
  /\ cb = 0
  /\ exit_reason = "running"
  /\ log = << >>
  /\ snap = [last_object |-> None, last_seen_time |-> NoTime,
             dets |-> << >>, cb |-> 0]
  /\ sv = Construct(DefaultConfig)
  /\ sv_last = [op |-> "init", arg |-> 0, before |-> DefaultConfig.home_angle]
  /\ rel = NoRel
  /\ \E a \in Args, gui \in BOOLEAN, in \in StdinStreams :
       CaptureStart(a, gui, in)
  /\ WebStart(FALSE, 0)

\* The variables of the other programs.
restVars == <<coordVars, lifeVars, servoVars, webVars>>

\* The variables of main() that only the iteration body changes.
bodyVars == <<use_gui, key, clock, last_save_time, it>>

\* while not stop_event.is_set():
M_Test ==
  /\ cap_pc = "test"
  /\ IF stop_event
       THEN cap_pc' = "finally" /\ why' = "stop_event"
       ELSE cap_pc' = "read" /\ why' = why
  /\ UNCHANGED <<restVars, args, rd_pc, stdin, line, stdin_queue, stop_event, released,
                 entered, consumed, saved, bodyVars>>

\* ret, frame = cap.read() fails: sleep 0.05 s and continue.
M_ReadFails ==
  /\ cap_pc = "read"
  /\ cap_pc' = "test"
  /\ UNCHANGED <<restVars, args, rd_pc, stdin, line, stdin_queue, stop_event, released,
                 entered, consumed, saved, bodyVars, why>>

\* cap.read() delivers a frame; key = 0xFF; with the GUI, imshow and waitKey
\* give the key pressed, or raise and the tool goes headless.
M_Read ==
  /\ cap_pc = "read"
  /\ cap_pc' = "drain"
  /\ IF use_gui
       THEN \/ \E k \in Keys : key' = k /\ use_gui' = use_gui
            \/ key' = NoKey /\ use_gui' = FALSE
       ELSE key' = NoKey /\ use_gui' = use_gui
  /\ it' = [it EXCEPT !.checked = FALSE, !.auto = FALSE, !.manual = FALSE]
  /\ UNCHANGED <<restVars, args, rd_pc, stdin, line, stdin_queue, stop_event, released,
                 entered, consumed, saved, clock, last_save_time, why>>

\* Variant: a quit command leaves the queue loop without setting the event.
DrainQuit_BreakOnly(ev) == ev

\* stop_event after a quit command from the terminal: stop_event.set()
DrainQuit(ev) == TRUE

\* One turn of `while not stdin_queue.empty():` (the queue has one consumer).
M_Drain ==
  /\ cap_pc = "drain"
  /\ IF stdin_queue = << >>
       THEN /\ cap_pc' = "post"
            /\ UNCHANGED <<stdin_queue, consumed, saved, stop_event, it>>
       ELSE LET cmd == Head(stdin_queue) IN
            /\ stdin_queue' = Tail(stdin_queue)
            /\ consumed' = Append(consumed, cmd)
            /\ IF Lower(cmd) = "s"
                 THEN /\ saved' = saved + 1
                      /\ it' = [it EXCEPT !.manual = TRUE]
                      /\ cap_pc' = "drain"
                      /\ UNCHANGED stop_event
                 ELSE IF Lower(cmd) \in QuitWords
                 THEN /\ stop_event' = DrainQuit(stop_event)
                      /\ cap_pc' = "post"
                      /\ UNCHANGED <<saved, it>>
                 ELSE /\ cap_pc' = "drain"
                      /\ UNCHANGED <<saved, it, stop_event>>
  /\ UNCHANGED <<restVars, args, rd_pc, stdin, line, released, entered,
                 use_gui, key, clock, last_save_time, why>>

\* The rest of the iteration: manual save on the 's' key, the auto-save
\* block (time.time() is read only there), the quit keys, the sleep.
M_Post ==
  /\ cap_pc = "post"
  /\ LET manual == it.manual \/ key = KeyS IN
     IF args.save_every # 0 /\ args.save_every > 0
       THEN \E dt \in 0..MaxCapStep :
              /\ clock + dt <= MaxCapTime
              /\ clock' = clock + dt
              /\ LET due == AutoSaveDue(args, clock + dt, last_save_time) IN
                 /\ last_save_time' =
                      LastSaveAfter(due, manual, clock + dt, last_save_time)
                 /\ it' = [checked |-> TRUE, t |-> clock + dt,
                           last |-> last_save_time, auto |-> due,
                           manual |-> manual,
                           prev_auto |-> IF due THEN At(clock + dt)
                                                ELSE it.prev_auto,
                           gap |-> IF due /\ it.prev_auto # NoTime
                                     THEN At(clock + dt - it.prev_auto[1])
                                     ELSE NoTime]
       ELSE /\ it' = [it EXCEPT !.checked = TRUE, !.t = clock,
                                !.last = last_save_time, !.manual = manual,
                                !.gap = NoTime]
            /\ UNCHANGED <<clock, last_save_time>>
  /\ IF key = KeyQ \/ key = EscKey
       THEN cap_pc' = "finally" /\ why' = "key"
       ELSE cap_pc' = "test" /\ why' = why
  /\ UNCHANGED <<restVars, args, rd_pc, stdin, line, stdin_queue, stop_event, released,
                 entered, consumed, saved, use_gui, key>>

\* Ctrl-C anywhere in the loop: except KeyboardInterrupt
M_Interrupt ==
  /\ cap_pc \in {"test", "read", "drain", "post"}
  /\ cap_pc' = "finally"
  /\ why' = "interrupt"
  /\ UNCHANGED <<restVars, args, rd_pc, stdin, line, stdin_queue, stop_event, released,
                 entered, consumed, saved, bodyVars>>

\* finally: stop_event.set(); cap.release(); main() returns.
M_Finally ==
  /\ cap_pc = "finally"
  /\ stop_event' = TRUE
  /\ released' = TRUE
  /\ cap_pc' = "done"
  /\ UNCHANGED <<restVars, args, rd_pc, stdin, line, stdin_queue,
                 entered, consumed, saved, bodyVars, why>>

\* stdin_reader is a daemon thread: it runs only while main() has not returned.
ReaderAlive == cap_pc # "done"

\* stdin_reader: while not stop_event.is_set():
R_Test ==
  /\ ReaderAlive
  /\ rd_pc = "test"
  /\ rd_pc' = IF stop_event THEN "finally" ELSE "readline"
  /\ UNCHANGED <<restVars, args, cap_pc, stdin, line, stdin_queue, stop_event, released,
                 entered, consumed, saved, bodyVars, why>>

\* line = sys.stdin.readline(): the next line, "" at end of file, or it
\* blocks while the terminal has nothing to deliver.
R_Readline ==
  /\ ReaderAlive
  /\ rd_pc = "readline"
  /\ IF stdin.lines # << >>
       THEN /\ line' = Head(stdin.lines)
            /\ stdin' = [stdin EXCEPT !.lines = Tail(stdin.lines)]
            /\ entered' = Append(entered, Head(stdin.lines))
            /\ rd_pc' = "put"
       ELSE /\ stdin.eof
            /\ line' = ""
            /\ rd_pc' = "finally"
            /\ UNCHANGED <<stdin, entered>>
  /\ UNCHANGED <<restVars, args, cap_pc, stdin_queue, stop_event, released,
                 consumed, saved, bodyVars, why>>

\* queue.put(line.strip())
R_Put ==
  /\ ReaderAlive
  /\ rd_pc = "put"
  /\ stdin_queue' = Append(stdin_queue, Strip(line))
  /\ rd_pc' = "test"
  /\ UNCHANGED <<restVars, args, cap_pc, stdin, line, stop_event, released,
                 entered, consumed, saved, bodyVars, why>>

\* stdin_reader: finally: stop_event.set()
R_Finally ==
  /\ ReaderAlive
  /\ rd_pc = "finally"
  /\ stop_event' = TRUE
  /\ rd_pc' = "exit"
  /\ UNCHANGED <<restVars, args, cap_pc, stdin, line, stdin_queue, released,
                 entered, consumed, saved, bodyVars, why>>

MainStep == M_Test \/ M_ReadFails \/ M_Read \/ M_Drain \/ M_Post \/ M_Finally

ReaderStep == R_Test \/ R_Readline \/ R_Put \/ R_Finally

NextCapture ==
  \/ M_Test
  \/ M_ReadFails
  \/ M_Read
  \/ M_Drain
  \/ M_Post
  \/ M_Finally
  \/ M_Interrupt
  \/ R_Test
  \/ R_Readline
  \/ R_Put
  \/ R_Finally

SpecCapture == InitCapture /\ [][NextCapture]_vars

\* Both threads keep running; nothing is assumed of the camera or of Ctrl-C.
FairCapture ==
  /\ SpecCapture
  /\ WF_vars(MainStep)
  /\ WF_vars(ReaderStep)

(* ---- properties of the loop ---- *)

\* What the contract expects after each tick of the reference trace.
RefExpected ==
  << [cmds |-> << [op |-> "move", angle |-> 45] >>,
      last_object |-> "battery", last_seen_time |-> << 0 >>],
     [cmds |-> << >>,
      last_object |-> "battery", last_seen_time |-> << 3 >>],
     [cmds |-> << >>,
      last_object |-> "battery", last_seen_time |-> << 3 >>],
     [cmds |-> << [op |-> "home", angle |-> 90] >>,
      last_object |-> "None", last_seen_time |-> << >>],
     [cmds |-> << [op |-> "move", angle |-> 135] >>,
      last_object |-> "motor", last_seen_time |-> << 16 >>],
     [cmds |-> << [op |-> "move", angle |-> 45] >>,
      last_object |-> "battery", last_seen_time |-> << 17 >>] >>

\* C11: from Idle the ticks t=0 [battery], t=0.3 [battery], t=0.5 [], t=1.5 [],
\* t=1.6 [motor], t=1.7 [battery, motor] issue move 45, nothing, nothing,
\* home 90, move 135, move 45 and pass through the states of the contract.
C11_ReferenceTrace ==
  (ref.on /\ ref.k >= 1 /\ pc = "read")
  => /\ cmds = RefExpected[ref.k].cmds
     /\ last_object = RefExpected[ref.k].last_object
     /\ last_seen_time = RefExpected[ref.k].last_seen_time

\* The sixth tick of the reference trace has been made.
C11_Witness ==
  /\ ref.on
  /\ ref.k = 6
  /\ pc = "read"
  /\ now = 17
  /\ ClassesOf(latest_detections) = << "battery", "motor" >>
  /\ cmds = << [op |-> "move", angle |-> 45] >>

Ended == pc \in {"det_cleanup", "servo_cleanup", "done"}

ServoCleanups == Cardinality({i \in 1..Len(log) : log[i] = "servo.cleanup"})

\* C15: however the detection loop ends (failed read, 'q', Ctrl+C, exception
\* in the callback), servo.cleanup() is eventually called, exactly once, after
\* the detector's cleanup, and no tick (so no servo move) follows it.
C15_OrderlyShutdown ==
  /\ [](ServoCleanups <= 1)
  /\ [](ServoCleanups = 1
        => (log = << "detector.cleanup", "servo.cleanup" >> /\ pc = "done"))
  /\ ((exit_reason # "running") ~> (ServoCleanups = 1))

\* The loop ended by an exception of the servo and both cleanups were made.
C15_Witness ==
  /\ exit_reason = "raised"
  /\ pc = "done"
  /\ log = << "detector.cleanup", "servo.cleanup" >>

\* C16: for every frame read, latest_detections is replaced by the frame's
\* detections before the callback, and the callback runs exactly once per
\* frame (also with no detection) before the next frame is read.
C16_TickSequence ==
  /\ (pc = "callback" => (frame_dets = << latest_detections >> /\ cb = 0))
  /\ ((pc = "read" /\ frame_dets # << >>)
      => (frame_dets = << latest_detections >> /\ cb = 1))

\* A frame without detections, read after a frame with a battery, got its
\* callback.
C16_Witness ==
  /\ pc = "read"
  /\ cb = 1
  /\ frame_dets = << << >> >>
  /\ latest_detections = << >>
  /\ last_object = "battery"
  /\ run.cls = None
  /\ run.n >= 1

(* ---- properties of the ServoController ---- *)

InRange(s, angle) == s.min_angle <= angle /\ angle <= s.max_angle

\* The bound of [min_angle, max_angle] nearest to angle, angle itself inside.
Nearest(s, angle) ==
  IF angle < s.min_angle THEN s.min_angle
  ELSE IF angle > s.max_angle THEN s.max_angle
  ELSE angle

\* C14: with min_angle <= max_angle, after construction and after any sequence
\* of move, move_left, move_right, sweep and home, the angle written to the
\* hardware and current_angle lie in [min_angle, max_angle]; an out-of-range
\* request ends at the nearer bound.
C14_RangeInvariant ==
  /\ InRange(sv, sv.hw)
  /\ InRange(sv, sv.current_angle)
  /\ (sv_last.op = "move" => sv.current_angle = Nearest(sv, sv_last.arg))
  /\ (sv_last.op = "move_left"
      => sv.current_angle = Nearest(sv, sv_last.before - sv_last.arg))
  /\ (sv_last.op = "move_right"
      => sv.current_angle = Nearest(sv, sv_last.before + sv_last.arg))

\* move(225) with a calibration offset ended at max_angle.
C14_Witness ==
  /\ sv_last.op = "move"
  /\ sv_last.arg > sv.max_angle
  /\ sv.angle_offset > 0
  /\ sv.current_angle = sv.max_angle
  /\ sv.hw = sv.max_angle

\* C17 as claimed: after home(), and right after construction, get_angle()
\* equals home_angle, for every configuration.
C17_HomeReturnsHome ==
  sv_last.op \in {"home", "init"} => GetAngle(sv) = sv.home_angle

\* C17 as amended: after home(), and right after construction, get_angle()
\* equals home_angle clamped to [min_angle, max_angle]: home_angle itself
\* when min_angle <= home_angle <= max_angle (90 by default), else the
\* nearer bound.
C17_HomeReturnsClampedHome ==
  sv_last.op \in {"home", "init"}
  => /\ GetAngle(sv) = Nearest(sv, sv.home_angle)
     /\ (InRange(sv, sv.home_angle) => GetAngle(sv) = sv.home_angle)

\* home() brought the servo back from another angle to an in-range home_angle
\* other than the center.
C17_Witness ==
  /\ sv_last.op = "home"
  /\ sv_last.before # sv.home_angle
  /\ InRange(sv, sv.home_angle)
  /\ sv.home_angle # 90
  /\ GetAngle(sv) = sv.home_angle

\* C18 as claimed: move_left(d) changes get_angle() to current - d and
\* move_right(d) to current + d, so every sequence of relative moves ends at
\* its start plus the signed sum, at its start when the sum is zero.
C18_RelativeMovesCompose ==
  rel.n >= 1 => GetAngle(sv) = rel.start + rel.sum

\* C18 as amended: for whole-degree moves none of whose targets current - d /
\* current + d leaves [min_angle, max_angle], a sequence of move_left and
\* move_right ends at its start plus the signed sum, at its start when the
\* sum is zero; a target outside the range ends at the nearer bound.
C18_RelativeMovesComposeInRange ==
  (rel.n >= 1 /\ ~rel.clamped) => GetAngle(sv) = rel.start + rel.sum

\* From the center: left 45, right 90, left 45 ended back at the center.
C18_Witness ==
  /\ rel.n = 3
  /\ rel.sum = 0
  /\ ~rel.clamped
  /\ rel.start = 90
  /\ sv_last = [op |-> "move_left", arg |-> 45, before |-> 135]
  /\ GetAngle(sv) = 90

(* ---- properties of the capture tool ---- *)

\* C19: with --save-every N > 0 an automatic save happens on a frame
\* iteration exactly when now - last_save_time >= N and then sets
\* last_save_time to now; two consecutive automatic saves are at least N
\* apart; manual saves leave last_save_time alone; with N = 0 there is no
\* automatic save.
C19_AutoSaveInterval ==
  it.checked =>
    /\ it.auto <=> (args.save_every > 0 /\ it.t - it.last >= args.save_every)
    /\ (it.auto => last_save_time = it.t)
    /\ (~it.auto => last_save_time = it.last)
    /\ (it.gap # NoTime => it.gap[1] >= args.save_every)
    /\ (args.save_every = 0 => it.prev_auto = NoTime)

\* An iteration with a manual save made an automatic save exactly N seconds
\* after the previous automatic save.
C19_Witness ==
  /\ it.checked
  /\ it.auto
  /\ it.manual
  /\ args.save_every > 0
  /\ it.gap = At(args.save_every)
  /\ last_save_time = it.t

\* The command a terminal line stands for.
CommandOf(l) == Lower(Strip(l))

\* The position of the first quit line entered, Len(entered) + 1 without one.
FirstQuit ==
  LET quits == {i \in 1..Len(entered) : CommandOf(entered[i]) \in QuitWords}
  IN IF quits = {} THEN Len(entered) + 1
     ELSE CHOOSE i \in quits : \A j \in quits : i <= j

\* The 's' lines entered before the quit line or the end of file.
SavesEntered ==
  Cardinality({i \in 1..(FirstQuit - 1) : CommandOf(entered[i]) = "s"})

\* The terminal asked for the end: a quit line, or stdin at end of file.
TerminalEnd ==
  \/ FirstQuit <= Len(entered)
  \/ (stdin.lines = << >> /\ stdin.eof /\ rd_pc \in {"finally", "exit"})

\* C20, its run-end part: when the capture loop has ended on the stop event
\* (a quit line or end of file on the terminal), the camera is released and
\* every 's' line entered before that was taken from the queue exactly once,
\* in the order typed, and made exactly one save.
C20_TerminalControl ==
  /\ Len(consumed) <= Len(entered)
  /\ \A i \in 1..Len(consumed) : consumed[i] = Strip(entered[i])
  /\ (cap_pc = "done" => released)
  /\ ((cap_pc = "done" /\ why = "stop_event") => saved = SavesEntered)

\* C20, its progress part: after a quit line or end of file on the terminal
\* the capture loop eventually ends and the camera is released, whatever the
\* camera delivers.
C20_TerminalEndsLoop == TerminalEnd ~> (cap_pc = "done" /\ released)

\* C23: get_angle() reports the requested angle, not the calibrated one:
\* after move(a), with any angle_offset, get_angle() is a clamped to
\* [min_angle, max_angle] and the hardware angle is that angle plus
\* angle_offset, clamped again; move_left / move_right start from the
\* requested angle, so the offset is applied once, never twice.
C23_RequestedAngle ==
  /\ sv.hw = Nearest(sv, GetAngle(sv) + sv.angle_offset)
  /\ (sv_last.op = "move"
      => /\ GetAngle(sv) = Nearest(sv, sv_last.arg)
         /\ sv.hw = Nearest(sv, Nearest(sv, sv_last.arg) + sv.angle_offset))
  /\ (sv_last.op = "move_left"
      => sv.hw = Nearest(sv, Nearest(sv, sv_last.before - sv_last.arg)
                             + sv.angle_offset))
  /\ (sv_last.op = "move_right"
      => sv.hw = Nearest(sv, Nearest(sv, sv_last.before + sv_last.arg)
                             + sv.angle_offset))
  /\ ((rel.n >= 1 /\ ~rel.clamped)
      => GetAngle(sv) = rel.start + rel.sum)

\* Two relative moves in a row with an offset of 20: the hardware angle is
\* 20 above the reported angle, not 40.
C23_Witness ==
  /\ sv.angle_offset = 20
  /\ rel.n = 2
  /\ ~rel.clamped
  /\ sv_last.op = "move_right"
  /\ GetAngle(sv) = rel.start + rel.sum
  /\ sv.hw = GetAngle(sv) + 20
  /\ sv.hw < sv.max_angle

(* ---- the servo under the coordinator ---- *)

\* The angle the coordinator state stands for.
AngleOf(obj) ==
  IF obj = "battery" THEN BatteryAngle
  ELSE IF obj = "motor" THEN MotorAngle
  ELSE HomeAngle

\* C21: with the default servo configuration, at every tick boundary (after
\* construction and after any sequence of ticks whose servo commands
\* succeed), servo.get_angle() is 45 when last_object is battery, 135 when
\* it is motor and home_angle (90) when the coordinator is idle.
C21_AngleAgreesWithState ==
  pc = "read" =>
    /\ last_object \in {None, "battery", "motor"}
    /\ GetAngle(sv) = AngleOf(last_object)
    /\ sv.hw = AngleOf(last_object)

\* The tick that timed out a tracked motor sent the servo home: idle at 90.
C21_Witness ==
  /\ AfterTick
  /\ prev_object = "motor"
  /\ last_object = None
  /\ cmds = << ServoHome >>
  /\ GetAngle(sv) = HomeAngle

(* ---- the web capture service of 2_collectImage/app.py ---- *)

InitWeb ==
  /\ pc = "read"
  /\ now = 0
  /\ latest_detections = << >>
  /\ last_seen_time = NoTime
  /\ last_object = None
  /\ cmds = << >>
  /\ prev_object = None
  /\ prev_seen = NoTime
  /\ run = [cls |-> None, entry |-> None, n |-> 0, cmds |-> 0, first |-> 0]
  /\ target_seen = FALSE
  /\ ref = [on |-> TRUE, k |-> 0]
  /\ frame_dets = << >>
  /\ cb = 0
  /\ exit_reason = "running"
  /\ log = << >>
  /\ snap = [last_object |-> None, last_seen_time |-> NoTime,
             dets |-> << >>, cb |-> 0]
  /\ sv = Construct(DefaultConfig)
  /\ sv_last = [op |-> "init", arg |-> 0, before |-> DefaultConfig.home_angle]
  /\ rel = NoRel
  /\ CaptureStart(DefaultArgs, FALSE, [lines |-> << >>, eof |-> FALSE])
  /\ \E open \in BOOLEAN : WebStart(open, MaxThreads)

\* The variables of the other programs.
nonWebVars == <<coordVars, lifeVars, servoVars, capVars>>

\* Variant: the section is entered without waiting for the lock.
LockFree_NotTested(l) == TRUE

\* with self.lock: the lock can be taken
LockFree(l) == l = NoThread

\* /video_feed: a client starts gen_frames(), which calls camera.get_frame()
W_StartFeed(t) ==
  /\ th[t].pc = "idle"
  /\ th' = [th EXCEPT ![t] = [IdleThread EXCEPT !.pc = "gf_lock"]]
  /\ UNCHANGED <<cam, cam_lock, last_frame, web, nonWebVars>>

\* POST /capture: capture_endpoint calls camera.capture_image()
W_StartCapture(t) ==
  /\ th[t].pc = "idle"
  /\ th' = [th EXCEPT ![t] = [IdleThread EXCEPT !.pc = "ci_lock"]]
  /\ UNCHANGED <<cam, cam_lock, last_frame, web, nonWebVars>>

\* get_frame: with self.lock:
G_Lock(t) ==
  /\ th[t].pc = "gf_lock"
  /\ LockFree(cam_lock)
  /\ cam_lock' = t
  /\ th' = [th EXCEPT ![t].pc = "gf_read", ![t].before = last_frame]
  /\ UNCHANGED <<cam, last_frame, web, nonWebVars>>

\* get_frame: if self.cap and self.cap.isOpened(): ret, frame = self.cap.read()
\* delivers the next frame, fails (ret False, or no open camera) or raises.
G_Read(t) ==
  /\ th[t].pc = "gf_read"
  /\ \/ /\ cam.open
        /\ cam.reads < MaxFrames
        /\ cam' = [cam EXCEPT !.reads = cam.reads + 1]
        /\ th' = [th EXCEPT ![t].pc = "gf_store", ![t].frame = cam.reads + 1]
     \/ /\ th' = [th EXCEPT ![t].pc = "gf_exit", ![t].ret = "nothing"]
        /\ UNCHANGED cam
     \/ /\ cam.open
        /\ th' = [th EXCEPT ![t].pc = "gf_exit", ![t].ret = "raised"]
        /\ UNCHANGED cam
  /\ UNCHANGED <<cam_lock, last_frame, web, nonWebVars>>

\* get_frame: if ret: cv2.imencode (which may raise); self.last_frame = frame;
\* return buffer.tobytes(), frame
G_Store(t) ==
  /\ th[t].pc = "gf_store"
  /\ \/ /\ last_frame' = th[t].frame
        /\ th' = [th EXCEPT ![t].pc = "gf_exit", ![t].ret = "frame"]
     \/ /\ th' = [th EXCEPT ![t].pc = "gf_exit", ![t].ret = "raised"]
        /\ UNCHANGED last_frame
  /\ UNCHANGED <<cam, cam_lock, web, nonWebVars>>

\* get_frame leaves the with block; gen_frames yields the frame or sleeps
\* 0.1 s and calls get_frame again, or the client has gone; an exception
\* ends the generator.
G_Exit(t) ==
  /\ th[t].pc = "gf_exit"
  /\ cam_lock' = NoThread
  /\ web' = IF th[t].ret = "frame"
            THEN [web EXCEPT !.stored = web.stored \cup {th[t].frame}]
            ELSE web
  /\ \/ /\ th[t].ret # "raised"
        /\ th' = [th EXCEPT ![t].pc = "gf_lock"]
     \/ th' = [th EXCEPT ![t].pc = "idle"]
  /\ UNCHANGED <<cam, last_frame, nonWebVars>>

\* capture_image: with self.lock:
C_Lock(t) ==
  /\ th[t].pc = "ci_lock"
  /\ LockFree(cam_lock)
  /\ cam_lock' = t
  /\ th' = [th EXCEPT ![t].pc = "ci_check", ![t].before = last_frame]
  /\ UNCHANGED <<cam, last_frame, web, nonWebVars>>

\* capture_image: if self.last_frame is not None:
C_Check(t) ==
  /\ th[t].pc = "ci_check"
  /\ th' = IF last_frame # NoFrame
           THEN [th EXCEPT ![t].pc = "ci_write"]
           ELSE [th EXCEPT ![t].pc = "ci_exit", ![t].ret = "error"]
  /\ UNCHANGED <<cam, cam_lock, last_frame, web, nonWebVars>>

\* capture_image: cv2.imwrite(filepath, self.last_frame); return filename,
\* filepath; or imwrite raises.
C_Write(t) ==
  /\ th[t].pc = "ci_write"
  /\ \/ /\ web' = [web EXCEPT !.written = web.written \cup {last_frame}]
        /\ th' = [th EXCEPT ![t].pc = "ci_exit", ![t].ret = "success",
                            ![t].frame = last_frame]
     \/ /\ th' = [th EXCEPT ![t].pc = "ci_exit", ![t].ret = "raised"]
        /\ UNCHANGED web
  /\ UNCHANGED <<cam, cam_lock, last_frame, nonWebVars>>

\* capture_image leaves the with block; capture_endpoint answers status
\* success if filename, else status error.
C_Exit(t) ==
  /\ th[t].pc = "ci_exit"
  /\ cam_lock' = NoThread
  /\ th' = [th EXCEPT ![t].pc = "idle"]
  /\ UNCHANGED <<cam, last_frame, web, nonWebVars>>

StartFeed    == \E t \in DOMAIN th : W_StartFeed(t)
StartCapture == \E t \in DOMAIN th : W_StartCapture(t)
GetLock      == \E t \in DOMAIN th : G_Lock(t)
GetRead      == \E t \in DOMAIN th : G_Read(t)
GetStore     == \E t \in DOMAIN th : G_Store(t)
GetExit      == \E t \in DOMAIN th : G_Exit(t)
CaptureLock  == \E t \in DOMAIN th : C_Lock(t)
CaptureCheck == \E t \in DOMAIN th : C_Check(t)
CaptureWrite == \E t \in DOMAIN th : C_Write(t)
CaptureExit  == \E t \in DOMAIN th : C_Exit(t)

NextWeb ==
  \/ StartFeed
  \/ StartCapture
  \/ GetLock
  \/ GetRead
  \/ GetStore
  \/ GetExit
  \/ CaptureLock
  \/ CaptureCheck
  \/ CaptureWrite
  \/ CaptureExit

SpecWeb == InitWeb /\ [][NextWeb]_vars

(* ---- properties of the web capture service ---- *)

\* Thread t is inside get_frame's or capture_image's with block.
InSection(t) ==
  th[t].pc \in {"gf_read", "gf_store", "gf_exit", "ci_check", "ci_write", "ci_exit"}

\* C22: at most one thread at a time is inside get_frame's read-and-store
\* section or capture_image's read-and-write section; the lock is held
\* exactly by the thread inside and free on every exit; capture_image writes
\* only a frame that a completed get_frame stored in last_frame; it returns
\* (None, None), and the endpoint answers error, when no frame has been read
\* yet; a failed read leaves last_frame unchanged.
C22_CameraLock ==
  /\ Cardinality({t \in DOMAIN th : InSection(t)}) <= 1
  /\ \A t \in DOMAIN th : InSection(t) <=> cam_lock = t
  /\ cam_lock \in DOMAIN th \cup {NoThread}
  /\ web.written \subseteq web.stored
  /\ \A t \in DOMAIN th :
       /\ (th[t].pc = "ci_exit" /\ th[t].before = NoFrame) => th[t].ret = "error"
       /\ (th[t].pc = "ci_exit" /\ th[t].ret = "success")
            => (th[t].frame = th[t].before /\ th[t].frame \in web.stored)
       /\ (th[t].pc = "gf_exit" /\ th[t].ret # "frame")
            => last_frame = th[t].before
       /\ (th[t].pc = "gf_exit" /\ th[t].ret = "frame")
            => last_frame = th[t].frame
  /\ (web.stored = {} => \A t \in DOMAIN th : th[t].ret # "success")

\* A capture wrote frame 2 while a feed, whose first read had failed after
\* frame 1, waits for the lock.
C22_Witness ==
  \E t \in DOMAIN th, u \in DOMAIN th :
    /\ t # u
    /\ th[t].pc = "ci_exit"
    /\ th[t].ret = "success"
    /\ th[t].frame = 2
    /\ th[u].pc = "gf_lock"
    /\ cam_lock = t
    /\ web.stored = {1, 2}

====
